---- MODULE Spec2Model ----
(***************************************************************************)
(* Model of src/js/main.js: the start / call / hangup handlers of a        *)
(* same-page WebRTC demo, the offer/answer handshake they drive            *)
(* (createdOffer, createdAnswer) and the ICE candidate relay               *)
(* (handleConnection).                                                     *)
(*                                                                         *)
(* The browser objects (getUserMedia, RTCPeerConnection) are the           *)
(* environment: every promise they return is an operation in flight that   *)
(* may resolve, reject or stay pending, at any time, also after the        *)
(* connection it was started on has been closed.  A promise's              *)
(* continuation runs to its next await in one step, as the single          *)
(* JavaScript thread does.                                                 *)
(*                                                                         *)
(* `undefined` (a module variable never assigned) and `null` behave alike  *)
(* in every use the code makes of them (=== against an object, property    *)
(* access), so both are Null here.                                         *)
(***************************************************************************)
EXTENDS Naturals, Sequences, FiniteSets

\* ---------------------------------------------------------------- bounds
\* Invocations of callAction that get as far as creating peer connections.
MaxCalls == 2
\* icecandidate events that carry a candidate.
MaxCands == 2
\* Promises of the environment that reject.
MaxRejects == 1

\* ------------------------------------------------------------- constants
Null == 0
NoDesc == [type |-> "none", pc |-> 0, call |-> 0]
\* The handshake steps, in the order the code writes them.
CreateOffer == 1
SetLocalOffer == 2
SetRemoteOffer == 3
CreateAnswer == 4
SetLocalAnswer == 5
SetRemoteAnswer == 6
Done == 7

VARIABLES
  localStream,           \* "none" | "stream"
  startDisabled,         \* startButton.disabled
  callDisabled,          \* callButton.disabled
  hangupDisabled,        \* hangupButton.disabled
  localPeerConnection,   \* Null or the index in conn of the object it refers to
  remotePeerConnection,
  conn,                  \* every RTCPeerConnection constructed so far
  calls,                 \* one record per callAction that reached createOffer
  ops,                   \* RTCPeerConnection promises in flight
  nCands,                \* icecandidate events with a candidate so far
  gumPending,            \* getUserMedia promises in flight
  rejects,               \* promises rejected so far
  raised,                \* the function the last step ended with an uncaught
                         \* error in, or "none"
  logged                 \* the trace lines of the last step that tell an
                         \* outcome

vars == <<localStream, startDisabled, callDisabled, hangupDisabled,
          localPeerConnection, remotePeerConnection, conn, calls, ops,
          nCands, gumPending, rejects, raised, logged>>

Init ==
  /\ localStream = "none"
  /\ startDisabled = FALSE
  /\ callDisabled = TRUE
  /\ hangupDisabled = TRUE
  /\ localPeerConnection = Null
  /\ remotePeerConnection = Null
  /\ conn = <<>>
  /\ calls = <<>>
  /\ ops = {}
  /\ nCands = 0
  /\ gumPending = 0
  /\ rejects = 0
  /\ raised = "none"
  /\ logged = <<>>

\* ------------------------------------------------------------- helpers
\* trace(text): one logged line; pc is the connection the line is about and
\* name the peer name printed in it (Null and "" when it names none).
Line(msg, pc, name) == [msg |-> msg, pc |-> pc, name |-> name]

\* getOtherPeer with the two branches of its conditional exchanged.
getOtherPeerSwapped(peerConnection) ==
  IF peerConnection = localPeerConnection THEN localPeerConnection
                                          ELSE remotePeerConnection

\* getOtherPeer(peerConnection)
getOtherPeer(peerConnection) ==
  IF peerConnection = localPeerConnection THEN remotePeerConnection
                                          ELSE localPeerConnection

\* getPeerName(peerConnection)
getPeerName(peerConnection) ==
  IF peerConnection = localPeerConnection THEN "localPeerConnection"
                                          ELSE "remotePeerConnection"

\* new RTCPeerConnection(servers)
NewConn(kind, call) ==
  [kind |-> kind, call |-> call, closed |-> FALSE,
   localDescription |-> NoDesc, remoteDescription |-> NoDesc]

\* ----------------------------------------------------------- handshake
\* The connection a handshake step is invoked on: the module variable the
\* code names at that step, read when the step is reached.
StepTarget(i) ==
  IF i \in {CreateOffer, SetLocalOffer, SetRemoteAnswer}
    THEN localPeerConnection
    ELSE remotePeerConnection

\* The description a step passes: createdOffer's or createdAnswer's argument.
StepDesc(c, i) ==
  IF i \in {SetLocalOffer, SetRemoteOffer} THEN c.offer
  ELSE IF i \in {SetLocalAnswer, SetRemoteAnswer} THEN c.answer
  ELSE NoDesc

\* createdOffer without the await before localPeerConnection
\* .setLocalDescription(description).
SuspendsButSetLocalOffer(i) == i # SetLocalOffer

\* Every handshake call is written `await ...`: the function suspends until
\* the promise settles.
Suspends(i) == TRUE

\* Every handshake call sits inside a try block whose catch logs.
Caught(i) == TRUE

\* createdOffer without its third try block: nothing asks for the answer.
SkipAnswerAfterSuccess(i) == IF i >= SetRemoteOffer THEN Done ELSE i + 1

\* The step that follows step i when its promise resolved.
NextAfterSuccess(i) == IF i = SetRemoteAnswer THEN Done ELSE i + 1

\* createdAnswer called after createdOffer's last catch block instead of
\* inside its try: a failed createAnswer goes on to createdAnswer's steps.
ContinueAfterFailure(i) ==
  IF i \in {CreateOffer, SetRemoteAnswer} THEN Done ELSE i + 1

\* One try block around the whole of createdOffer and createdAnswer: the
\* first failure ends the handshake.
AbortAfterFailure(i) == Done

\* The step that follows step i when it threw or its promise rejected: the
\* catch block logs, and the code after the try block runs.  createdOffer is
\* called inside callAction's try and createdAnswer inside createdOffer's.
NextAfterFailure(i) ==
  IF i \in {CreateOffer, CreateAnswer, SetRemoteAnswer} THEN Done ELSE i + 1

\* The function a step belongs to.
StepFunction(i) ==
  IF i = CreateOffer THEN "callAction"
  ELSE IF i \in {SetLocalOffer, SetRemoteOffer, CreateAnswer} THEN "createdOffer"
  ELSE "createdAnswer"

\* What is remembered of a call's failures: whether it got no offer at all.
StatusAfterFailure(i) == IF i = CreateOffer THEN "noOffer" ELSE "dirty"

\* Step i of call h failed (threw, or its promise rejected):
\* catch (error) { setSessionDescriptionError(error) } logs one line; an
\* error outside any try ends the function uncaught.
Failed(r, h, i) ==
  IF Caught(i)
    THEN [r EXCEPT !.calls[h].status = StatusAfterFailure(i),
                   !.logged = Append(@, Line("Failed to create session description", Null, ""))]
    ELSE [r EXCEPT !.calls[h].status = StatusAfterFailure(i),
                   !.calls[h].stage = Done,
                   !.raised = StepFunction(i)]

\* createdOffer / createdAnswer have returned: their arguments are gone.
Finished(r, h) ==
  [r EXCEPT !.calls[h].stage = Done, !.calls[h].offer = NoDesc,
            !.calls[h].answer = NoDesc]

\* Runs call h from step i to its next suspension.  r holds the parts of the
\* state the run changes: calls, ops, raised, logged.
RECURSIVE Run(_, _, _)
Run(r, h, i) ==
  IF i = Done THEN Finished(r, h)
  ELSE
    LET tgt == StepTarget(i)
        r0 == [r EXCEPT !.calls[h].stage = i]
    IN
    IF tgt = Null
      THEN \* property access on null: a TypeError thrown synchronously
        IF Caught(i) THEN Run(Failed(r0, h, i), h, NextAfterFailure(i))
                     ELSE Failed(r0, h, i)
      ELSE
        LET r1 == [r0 EXCEPT
                     !.ops = @ \cup {[task |-> "call", id |-> h, step |-> i,
                                      src |-> Null, pc |-> tgt,
                                      closed |-> conn[tgt].closed,
                                      desc |-> StepDesc(r.calls[h], i)]}]
        IN IF Suspends(i) THEN r1 ELSE Run(r1, h, NextAfterSuccess(i))

\* The description a resolved createOffer / createAnswer yields: one per
\* connection and call, opaque otherwise.
Created(o) ==
  [type |-> IF o.step = CreateOffer THEN "offer" ELSE "answer",
   pc |-> o.pc, call |-> o.id]

\* The effect of a resolved set*Description on the connection it was
\* invoked on.  close() is terminal: a closed connection changes no more.
Applied(cn, o) ==
  IF cn[o.pc].closed THEN cn
  ELSE IF o.step \in {SetLocalOffer, SetLocalAnswer}
    THEN [cn EXCEPT ![o.pc].localDescription = o.desc]
  ELSE IF o.step \in {SetRemoteOffer, SetRemoteAnswer}
    THEN [cn EXCEPT ![o.pc].remoteDescription = o.desc]
  ELSE cn

\* The promise of handshake operation o settles (ok: resolves, else rejects)
\* and the function awaiting it runs to its next await.
SettleCall(o, ok) ==
  LET h == o.id
      i == o.step
      c1 == [calls EXCEPT
               ![h].offer = IF ok /\ i = CreateOffer THEN Created(o) ELSE @,
               ![h].answer = IF ok /\ i = CreateAnswer THEN Created(o) ELSE @]
      r0 == [calls |-> c1, ops |-> ops \ {o}, raised |-> "none",
             logged |-> <<>>]
      r1 == IF ok THEN r0 ELSE Failed(r0, h, i)
      r2 == IF ~Suspends(i) \/ r1.raised # "none" THEN r1
            ELSE Run(r1, h, IF ok THEN NextAfterSuccess(i)
                                  ELSE NextAfterFailure(i))
  IN /\ ok \/ rejects < MaxRejects
     /\ rejects' = IF ok THEN rejects ELSE rejects + 1
     /\ conn' = IF ok THEN Applied(conn, o) ELSE conn
     /\ calls' = r2.calls
     /\ ops' = r2.ops
     /\ raised' = r2.raised
     /\ logged' = r2.logged
     /\ UNCHANGED <<localStream, startDisabled, callDisabled, hangupDisabled,
                    localPeerConnection, remotePeerConnection, nCands,
                    gumPending>>

HandshakeResolves == \E o \in ops : o.task = "call" /\ SettleCall(o, TRUE)

HandshakeRejects == \E o \in ops : o.task = "call" /\ SettleCall(o, FALSE)

\* ------------------------------------------------------------ handlers
\* startAction, to its await of getUserMedia.
StartAction ==
  /\ gumPending = 0
  /\ startDisabled' = TRUE
  /\ gumPending' = gumPending + 1
  /\ raised' = "none"
  /\ logged' = <<>>
  /\ UNCHANGED <<localStream, callDisabled, hangupDisabled,
                 localPeerConnection, remotePeerConnection, conn, calls, ops,
                 nCands, rejects>>

\* getUserMedia resolves: startAction resumes with gotLocalMediaStream.
gotLocalMediaStream ==
  /\ gumPending > 0
  /\ gumPending' = gumPending - 1
  /\ localStream' = "stream"
  /\ callDisabled' = FALSE
  /\ raised' = "none"
  /\ logged' = <<Line("Received local stream", Null, "")>>
  /\ UNCHANGED <<startDisabled, hangupDisabled, localPeerConnection,
                 remotePeerConnection, conn, calls, ops, nCands, rejects>>

\* A catch block that goes on to gotLocalMediaStream's last statement,
\* callButton.disabled = false.
handleLocalMediaStreamErrorEnablesCall ==
  /\ gumPending > 0
  /\ rejects < MaxRejects
  /\ rejects' = rejects + 1
  /\ gumPending' = gumPending - 1
  /\ callDisabled' = FALSE
  /\ raised' = "none"
  /\ logged' = <<Line("navigator.getUserMedia error", Null, "")>>
  /\ UNCHANGED <<localStream, startDisabled, hangupDisabled,
                 localPeerConnection, remotePeerConnection, conn, calls, ops,
                 nCands>>

\* getUserMedia rejects: startAction's catch logs and nothing else.
handleLocalMediaStreamError ==
  /\ gumPending > 0
  /\ rejects < MaxRejects
  /\ rejects' = rejects + 1
  /\ gumPending' = gumPending - 1
  /\ raised' = "none"
  /\ logged' = <<Line("navigator.getUserMedia error", Null, "")>>
  /\ UNCHANGED <<localStream, startDisabled, callDisabled, hangupDisabled,
                 localPeerConnection, remotePeerConnection, conn, calls, ops,
                 nCands>>

\* callAction, to its await of createOffer.  With no local stream,
\* localStream.getVideoTracks() throws a TypeError after the two buttons
\* were flipped, and the async function ends rejected.
CallAction ==
  /\ callDisabled' = TRUE
  /\ hangupDisabled' = FALSE
  /\ logged' = <<>>
  /\ IF localStream = "none"
       THEN /\ raised' = "callAction"
            /\ UNCHANGED <<localPeerConnection, remotePeerConnection, conn,
                           calls, ops>>
       ELSE /\ Len(calls) < MaxCalls
            /\ LET h == Len(calls) + 1
                   l == Len(conn) + 1
                   r == Len(conn) + 2
               IN /\ conn' = conn \o <<NewConn("local", h), NewConn("remote", h)>>
                  /\ localPeerConnection' = l
                  /\ remotePeerConnection' = r
                  /\ calls' = Append(calls,
                       [local |-> l, remote |-> r, stage |-> CreateOffer,
                        offer |-> NoDesc, answer |-> NoDesc, status |-> "clean"])
                  /\ ops' = ops \cup {[task |-> "call", id |-> h,
                                       step |-> CreateOffer, src |-> Null,
                                       pc |-> l, closed |-> FALSE,
                                       desc |-> NoDesc]}
            /\ raised' = "none"
  /\ UNCHANGED <<localStream, startDisabled, nCands, gumPending, rejects>>

\* hangupAction without its two calls of close().
NotClosed(cn, l, r) == cn

\* RTCPeerConnection.close() on the two connections.  A closed connection
\* is kept as a closed object only: nothing reads its descriptions again.
Closed(cn, l, r) ==
  [cn EXCEPT ![l] = [NewConn(@.kind, @.call) EXCEPT !.closed = TRUE],
             ![r] = [NewConn(@.kind, @.call) EXCEPT !.closed = TRUE]]

\* hangupAction without its two assignments of null.
NotReleased(pc) == pc

\* The value hangupAction leaves in localPeerConnection and in
\* remotePeerConnection.
Released(pc) == Null

\* hangupAction without hangupButton.disabled = true.
HangupActionKeepsButton ==
  /\ logged' = <<>>
  /\ IF localPeerConnection = Null
       THEN /\ raised' = "hangupAction"
            /\ UNCHANGED <<callDisabled, hangupDisabled, localPeerConnection,
                           remotePeerConnection, conn>>
       ELSE /\ conn' = Closed(conn, localPeerConnection, remotePeerConnection)
            /\ localPeerConnection' = Released(localPeerConnection)
            /\ remotePeerConnection' = Released(remotePeerConnection)
            /\ hangupDisabled' = hangupDisabled
            /\ callDisabled' = FALSE
            /\ raised' = "none"
  /\ UNCHANGED <<localStream, startDisabled, calls, ops, nCands,
                 gumPending, rejects>>

\* hangupAction.  With no connection, localPeerConnection.close() throws a
\* TypeError before anything is changed.
HangupAction ==
  /\ logged' = <<>>
  /\ IF localPeerConnection = Null
       THEN /\ raised' = "hangupAction"
            /\ UNCHANGED <<callDisabled, hangupDisabled, localPeerConnection,
                           remotePeerConnection, conn>>
       ELSE /\ conn' = Closed(conn, localPeerConnection, remotePeerConnection)
            /\ localPeerConnection' = Released(localPeerConnection)
            /\ remotePeerConnection' = Released(remotePeerConnection)
            /\ hangupDisabled' = TRUE
            /\ callDisabled' = FALSE
            /\ raised' = "none"
  /\ UNCHANGED <<localStream, startDisabled, calls, ops, nCands,
                 gumPending, rejects>>

\* --------------------------------------------------------------- relay
\* A relay that hands over the candidate of the event before this one.
previousIceCandidate(n) == IF n > 1 THEN n - 1 ELSE n

\* new RTCIceCandidate(iceCandidate): the candidate handed to
\* addIceCandidate is the one the event carries (n: its discovery number).
newIceCandidate(n) == n

\* handleConnection for an icecandidate event of connection p, to its await.
\* An event without a candidate does nothing.  addIceCandidate is invoked
\* in the event handler itself, before its await.
handleConnection ==
  \E p \in 1..Len(conn), hasCandidate \in BOOLEAN :
    IF ~hasCandidate THEN UNCHANGED vars
    ELSE
      /\ nCands < MaxCands
      /\ nCands' = nCands + 1
      /\ LET otherPeer == getOtherPeer(p) IN
         IF otherPeer = Null
           THEN \* TypeError inside the try: handleConnectionFailure
             /\ logged' = <<Line("failed to add ICE Candidate", p, getPeerName(p))>>
             /\ UNCHANGED ops
           ELSE
             /\ logged' = <<>>
             /\ ops' = ops \cup {[task |-> "ice",
                                  id |-> newIceCandidate(nCands + 1),
                                  step |-> 0, src |-> p, pc |-> otherPeer,
                                  closed |-> conn[otherPeer].closed,
                                  desc |-> NoDesc]}
      /\ raised' = "none"
      /\ UNCHANGED <<localStream, startDisabled, callDisabled, hangupDisabled,
                     localPeerConnection, remotePeerConnection, conn, calls,
                     gumPending, rejects>>

\* handleConnection whose catch block hangs up after logging the failure.
SettleIceFatal(o, ok) ==
  /\ ok \/ rejects < MaxRejects
  /\ rejects' = IF ok THEN rejects ELSE rejects + 1
  /\ ops' = ops \ {o}
  /\ raised' = "none"
  /\ logged' = <<Line(IF ok THEN "addIceCandidate success"
                              ELSE "failed to add ICE Candidate",
                        o.src, getPeerName(o.src))>>
  /\ localPeerConnection' = IF ok THEN localPeerConnection ELSE Null
  /\ remotePeerConnection' = IF ok THEN remotePeerConnection ELSE Null
  /\ UNCHANGED <<localStream, startDisabled, callDisabled, hangupDisabled,
                 conn, calls, nCands, gumPending>>

\* addIceCandidate settles: handleConnectionSuccess or
\* handleConnectionFailure logs under getPeerName of the event's target.
SettleIce(o, ok) ==
  /\ ok \/ rejects < MaxRejects
  /\ rejects' = IF ok THEN rejects ELSE rejects + 1
  /\ ops' = ops \ {o}
  /\ raised' = "none"
  /\ logged' = <<Line(IF ok THEN "addIceCandidate success"
                              ELSE "failed to add ICE Candidate",
                        o.src, getPeerName(o.src))>>
  /\ UNCHANGED <<localStream, startDisabled, callDisabled, hangupDisabled,
                 localPeerConnection, remotePeerConnection, conn, calls,
                 nCands, gumPending>>

handleConnectionSuccess == \E o \in ops : o.task = "ice" /\ SettleIce(o, TRUE)

handleConnectionFailure == \E o \in ops : o.task = "ice" /\ SettleIce(o, FALSE)

\* ------------------------------------------------------- specifications
\* A click reaches its handler only while the button is enabled.
ClickStart == ~startDisabled /\ StartAction

ClickCall == ~callDisabled /\ CallAction

ClickHangup == ~hangupDisabled /\ HangupAction

\* The page as a user drives it.
Next ==
  \/ ClickStart
  \/ ClickCall
  \/ ClickHangup
  \/ gotLocalMediaStream
  \/ handleLocalMediaStreamError
  \/ HandshakeResolves
  \/ HandshakeRejects
  \/ handleConnection
  \/ handleConnectionSuccess
  \/ handleConnectionFailure

Spec == Init /\ [][Next]_vars

\* The three operations invoked as functions, in any order and state,
\* whatever the buttons show; the connections emit no candidate here.
NextDirect ==
  \/ StartAction
  \/ CallAction
  \/ HangupAction
  \/ gotLocalMediaStream
  \/ handleLocalMediaStreamError
  \/ HandshakeResolves
  \/ HandshakeRejects

SpecDirect == Init /\ [][NextDirect]_vars

\* A handshake promise settles, one way or the other.
HandshakeSettles == HandshakeResolves \/ HandshakeRejects

\* The page with a transport that settles every handshake promise in the
\* end: a promise in flight stays ready to settle until it does.
SpecFair == Spec /\ WF_vars(HandshakeSettles)

\* ----------------------------------------------------------- claims
\* The handshake operations of call h in flight.
InFlight(h) == {o \in ops : o.task = "call" /\ o.id = h}

\* Call h ran its six steps and every one of them resolved.
Completed(h) == calls[h].stage = Done /\ calls[h].status = "clean"

\* No hangupAction has run since call h created its connections.
NotHungUp(h) == ~conn[calls[h].local].closed

\* A line of setSessionDescriptionError among the lines of a step.
ErrorLogged(lines) ==
  \E n \in 1..Len(lines) : lines[n].msg = "Failed to create session description"

\* C1: for every call whose six handshake operations all resolved with no
\* hangup since it began, Local's local description is the offer and equals
\* Remote's remote description, and Remote's local description is the
\* answer and equals Local's remote description.
C1_DescriptionsAgree ==
  \A h \in 1..Len(calls) :
    (Completed(h) /\ NotHungUp(h)) =>
      LET l == conn[calls[h].local]
          r == conn[calls[h].remote]
      IN /\ l.localDescription.type = "offer"
         /\ l.localDescription = r.remoteDescription
         /\ r.localDescription.type = "answer"
         /\ r.localDescription = l.remoteDescription

\* A call has at most one handshake operation in flight, the one of the
\* step it has reached.
OneInFlight ==
  \A h \in 1..Len(calls) :
    /\ Cardinality(InFlight(h)) <= 1
    /\ \A o \in InFlight(h) : o.step = calls[h].stage

\* A step starts an operation of a call only if it is of a later step than
\* the call had reached and the call's earlier operation has settled.
StartedInOrder ==
  \A h \in 1..Len(calls) :
    /\ calls'[h].stage >= calls[h].stage
    /\ \A o \in InFlight(h)' \ InFlight(h) :
         /\ o.step > calls[h].stage
         /\ InFlight(h) \cap InFlight(h)' = {}

\* C2: within one call the handshake operations are started in the order
\* createOffer, Local.setLocalDescription, Remote.setRemoteDescription,
\* createAnswer, Remote.setLocalDescription, Local.setRemoteDescription,
\* each only once the one before it has settled, and never two of them are
\* in flight together, whatever candidate events are interleaved.
C2_Sequential == [](OneInFlight) /\ [][StartedInOrder]_vars

\* C2 witness: a call completed its six steps while a relayed candidate was
\* still in flight.
C2_Witness ==
  \E h \in 1..Len(calls) :
    Completed(h) /\ \E o \in ops : o.task = "ice"

\* C3: addIceCandidate is never invoked on the connection whose event
\* carried the candidate.  Every invocation is in ops in the state that
\* follows it, so the invariant covers each of them.
C3_NeverToSource == \A o \in ops : o.task = "ice" => o.pc # o.src

\* C3 witness: a candidate of a connection closed by hangupAction was
\* relayed after a later callAction.
C3_Witness ==
  \E o \in ops :
    o.task = "ice" /\ conn[o.src].closed /\ ~o.closed /\ ~conn[o.pc].closed

\* Every addIceCandidate invoked in a step carries the candidate that step
\* discovered, which is newer than every candidate known before.
InvokedAtDiscovery ==
  \A o \in ops' \ ops :
    o.task = "ice" => /\ o.id = nCands'
                      /\ o.id > nCands
                      /\ \A q \in ops : q.task = "ice" => q.id < o.id

\* C4: the relay keeps the emission order: addIceCandidate is invoked for a
\* candidate in the very step that discovers it, so a candidate discovered
\* earlier is never handed over after one discovered later, however long
\* the invocations take to settle.
C4_EmissionOrder == [][InvokedAtDiscovery]_vars

\* C4 witness: two candidates of one connection are in flight together.
C4_Witness ==
  \E o, q \in ops :
    o.task = "ice" /\ q.task = "ice" /\ o.src = q.src /\ o.id < q.id

\* A session was ended by hangupAction and none has been started since.
SessionEnded ==
  /\ localPeerConnection = Null
  /\ remotePeerConnection = Null
  /\ \E p \in 1..Len(conn) : conn[p].closed
  /\ hangupDisabled
  /\ ~callDisabled

\* C5: hangup is idempotent: invoked on a session that hangup has ended it
\* raises no error and leaves the session ended.
C5_HangupIdempotent ==
  [][(SessionEnded /\ HangupAction) => (raised' = "none" /\ SessionEnded')]_vars

\* C6: connect invoked before any local media was acquired fails and
\* changes neither the buttons nor the connections.
C6_ConnectBeforeStart ==
  [][(localStream = "none" /\ CallAction) =>
       /\ raised' # "none"
       /\ callDisabled' = callDisabled
       /\ hangupDisabled' = hangupDisabled
       /\ conn' = conn
       /\ localPeerConnection' = localPeerConnection
       /\ remotePeerConnection' = remotePeerConnection]_vars

\* No step ends with an uncaught error, and no operation is started on a
\* connection that was closed.
NothingUncaught == raised = "none" /\ \A o \in ops : ~o.closed

\* A continuation that finds the connections gone logs the failure.
FailureLogged ==
  \A h \in 1..Len(calls) :
    (/\ localPeerConnection = Null
     /\ calls'[h].stage # calls[h].stage
     /\ calls[h].stage # SetRemoteAnswer) => ErrorLogged(logged')

\* C7: hangup with operations in flight ends cleanly: whatever settles
\* afterwards, no step ends with an uncaught error, every failure of a
\* continuation is logged, and no operation is started on a connection
\* that was closed.
C7_CleanHangup == [](NothingUncaught) /\ [][FailureLogged]_vars

\* C7 witness: a handshake operation resolved after hangupAction and its
\* continuation ran to the end on the TypeErrors alone.
C7_Witness ==
  /\ Len(calls) = 1
  /\ calls[1].stage = Done
  /\ calls[1].status = "dirty"
  /\ rejects = 0
  /\ conn[calls[1].local].closed

\* C8: the remote description of an open connection, once set, is never
\* overwritten.
C8_RemoteSetOnce ==
  [][\A p \in 1..Len(conn) :
       (/\ ~conn[p].closed
        /\ ~conn'[p].closed
        /\ conn[p].remoteDescription # NoDesc)
       => conn'[p].remoteDescription = conn[p].remoteDescription]_vars

\* The handshake operation o rejects in this step.
Rejects(o) ==
  o \in ops /\ o \notin ops' /\ o.task = "call" /\ rejects' = rejects + 1

\* Step i of call h is attempted in this step: its operation is in flight
\* afterwards, or the connection was gone and the TypeError was logged
\* after the rejection's own line.
Attempted(h, i) ==
  \/ \E o \in ops' : o.task = "call" /\ o.id = h /\ o.step = i
  \/ StepTarget(i) = Null /\ Len(logged') >= 2

\* A rejected description-set step is logged and the next step attempted.
StepFailureContinues ==
  \A o \in ops :
    (Rejects(o) /\ o.step \in {SetLocalOffer, SetRemoteOffer, SetLocalAnswer})
      => ErrorLogged(logged') /\ Attempted(o.id, o.step + 1)

\* C9: a rejected Remote.setRemoteDescription(offer) is logged and
\* createAnswer is attempted all the same; likewise a rejected
\* Local.setLocalDescription(offer) does not prevent
\* Remote.setRemoteDescription(offer), nor a rejected
\* Remote.setLocalDescription(answer) Local.setRemoteDescription(answer).
C9_BestEffort == [][StepFailureContinues]_vars

\* C9 witness: Remote.setRemoteDescription(offer) rejected and createAnswer
\* is in flight.
C9_Witness ==
  /\ Len(calls) = 1
  /\ rejects = 1
  /\ calls[1].stage = CreateAnswer
  /\ calls[1].status = "dirty"
  /\ conn[calls[1].local].localDescription # NoDesc
  /\ conn[calls[1].remote].remoteDescription = NoDesc
  /\ \E o \in ops : o.task = "call" /\ o.step = CreateAnswer

\* C10: after a call's createOffer rejected, and until hangupAction, its
\* connections carry no description, callButton stays disabled,
\* hangupButton enabled, and the two connections stay the open ones the
\* module variables name.
C10_OfferFailureStaysNegotiating ==
  \A h \in 1..Len(calls) :
    (calls[h].status = "noOffer" /\ NotHungUp(h)) =>
      /\ conn[calls[h].local].localDescription = NoDesc
      /\ conn[calls[h].local].remoteDescription = NoDesc
      /\ conn[calls[h].remote].localDescription = NoDesc
      /\ conn[calls[h].remote].remoteDescription = NoDesc
      /\ callDisabled
      /\ ~hangupDisabled
      /\ localPeerConnection = calls[h].local
      /\ remotePeerConnection = calls[h].remote
      /\ ~conn[calls[h].remote].closed


\* getUserMedia rejects in this step.
MediaRejected == gumPending' < gumPending /\ rejects' > rejects

\* C11: when getUserMedia rejects, startAction leaves what it found before
\* it was invoked: no local stream, callButton disabled, no connection
\* constructed, no call begun.
C11_StartFailureLeavesIdle ==
  [][MediaRejected =>
       /\ localStream' = "none"
       /\ callDisabled'
       /\ hangupDisabled'
       /\ conn' = <<>>
       /\ calls' = <<>>
       /\ ops' = {}
       /\ localPeerConnection' = Null
       /\ remotePeerConnection' = Null
       /\ raised' = "none"]_vars

\* C11 witness: the one getUserMedia promise was rejected.
C11_Witness ==
  /\ startDisabled
  /\ gumPending = 0
  /\ rejects = 1
  /\ localStream = "none"
  /\ callDisabled
  /\ conn = <<>>


\* Both module variables name a connection that has not been closed.
SessionActive ==
  /\ localPeerConnection # Null
  /\ remotePeerConnection # Null
  /\ ~conn[localPeerConnection].closed
  /\ ~conn[remotePeerConnection].closed

\* C13: in every state the page reaches through its buttons, callButton is
\* enabled only if a local stream was acquired, and hangupButton is enabled
\* only while both connections exist and are not closed.
C13_ControlsFollowSession ==
  /\ ~callDisabled => localStream = "stream"
  /\ ~hangupDisabled => SessionActive

\* C13 witness: hangupButton is enabled in the second session, after a
\* hangup ended the first.
C13_Witness ==
  /\ ~hangupDisabled
  /\ callDisabled
  /\ Len(calls) = 2
  /\ SessionActive

\* The connections that have not been closed.
Unclosed == {p \in 1..Len(conn) : ~conn[p].closed}

\* C14: at most one session is active: the connections not closed are at
\* most one pair, the one the module variables name.
C14_OneSession ==
  /\ Cardinality(Unclosed) <= 2
  /\ Unclosed \subseteq {localPeerConnection, remotePeerConnection}
  /\ \A p, q \in Unclosed : conn[p].call = conn[q].call

\* C14 witness: a second callAction created its pair after hangupAction
\* closed the first.
C14_Witness ==
  /\ Len(conn) = 4
  /\ Cardinality(Unclosed) = 2
  /\ conn[1].closed
  /\ conn[2].closed


\* The addIceCandidate promise o rejects in this step.
IceRejects(o) ==
  o \in ops /\ o \notin ops' /\ o.task = "ice" /\ rejects' = rejects + 1

\* The handshake operations in flight, of every call.
HandshakeOps == {o \in ops : o.task = "call"}

\* C15: a rejected addIceCandidate is logged and nothing more: the step
\* raises no error, changes no button, no module variable, no connection's
\* descriptions or closedness, no call's stage and no handshake operation
\* in flight, and leaves untouched everything a later icecandidate event
\* is relayed by (the module variables, the connections, the other
\* deliveries in flight).
C15_RelayFailureNonFatal ==
  [][\A o \in ops : IceRejects(o) =>
       /\ \E n \in 1..Len(logged') :
            logged'[n].msg = "failed to add ICE Candidate"
       /\ raised' = "none"
       /\ conn' = conn
       /\ calls' = calls
       /\ HandshakeOps' = HandshakeOps
       /\ ops' = ops \ {o}
       /\ nCands' = nCands
       /\ localStream' = localStream
       /\ localPeerConnection' = localPeerConnection
       /\ remotePeerConnection' = remotePeerConnection
       /\ callDisabled' = callDisabled
       /\ hangupDisabled' = hangupDisabled
       /\ startDisabled' = startDisabled]_vars

\* C15 witness: an addIceCandidate was rejected, the handshake completed
\* with every step resolved, and the latest candidate is being delivered.
C15_Witness ==
  /\ rejects = 1
  /\ localStream = "stream"
  /\ Len(calls) = 1
  /\ Completed(1)
  /\ NotHungUp(1)
  /\ conn[calls[1].local].remoteDescription # NoDesc
  /\ \E o \in ops : o.task = "ice" /\ o.id = MaxCands


\* The name of the module variable connection p was constructed for.
NameOf(p) ==
  IF conn[p].kind = "local" THEN "localPeerConnection"
                            ELSE "remotePeerConnection"

\* An addIceCandidate promise settles in this step.
IceSettles == \E o \in ops : o.task = "ice" /\ o \notin ops'

\* C16: the line logged when a delivery settles, success or failure, names
\* the connection that discovered the candidate, also when hangupAction or
\* another callAction ran while the delivery was in flight.
C16_TaggedWithDiscoverer ==
  [][IceSettles =>
       \A n \in 1..Len(logged') :
         logged'[n].pc # Null => logged'[n].name = NameOf(logged'[n].pc)]_vars


\* A call that has ended its handshake has no operation in flight.
EndedHasNoneInFlight ==
  \A h \in 1..Len(calls) : calls[h].stage = Done => InFlight(h) = {}

\* A call that has ended its handshake starts no step again.
EndedStaysEnded ==
  \A h \in 1..Len(calls) : calls[h].stage = Done => calls'[h].stage = Done

\* The step in which a call's createAnswer rejects ends that call's
\* handshake, logs the failure and changes no connection.
AnswerFailureEndsCall ==
  \A o \in ops :
    (Rejects(o) /\ o.step = CreateAnswer) =>
      /\ ErrorLogged(logged')
      /\ calls'[o.id].stage = Done
      /\ InFlight(o.id)' = {}
      /\ conn' = conn

\* C17: when createAnswer rejects, the call's handshake invokes neither
\* Remote.setLocalDescription nor Local.setRemoteDescription, in that step
\* or any later one, and the failure takes nothing back: the descriptions
\* the earlier steps set are what they were.
C17_AnswerFailureSkipsDependents ==
  /\ [](EndedHasNoneInFlight)
  /\ [][EndedStaysEnded]_vars
  /\ [][AnswerFailureEndsCall]_vars

\* C17 witness: createAnswer was rejected after both offer steps resolved:
\* Local holds its local description, Remote its remote description, and
\* neither holds an answer.
C17_Witness ==
  /\ Len(calls) = 1
  /\ rejects = 1
  /\ calls[1].stage = Done
  /\ calls[1].status = "dirty"
  /\ NotHungUp(1)
  /\ conn[calls[1].local].localDescription.type = "offer"
  /\ conn[calls[1].remote].remoteDescription.type = "offer"
  /\ conn[calls[1].remote].localDescription = NoDesc
  /\ conn[calls[1].local].remoteDescription = NoDesc


\* C18: every handshake operation in flight was invoked on a connection of
\* the call whose handshake invoked it: the handshake of one callAction
\* never invokes setLocalDescription, setRemoteDescription or createAnswer
\* on a connection a later callAction constructed.
C18_HandshakeKeepsItsEndpoints ==
  \A o \in ops : o.task = "call" => conn[o.pc].call = o.id

\* C19: every delivery in flight was invoked on the connection paired with
\* the one that discovered the candidate: same call, the other kind.
C19_DeliveredWithinSession ==
  \A o \in ops :
    o.task = "ice" => /\ conn[o.pc].call = conn[o.src].call
                      /\ conn[o.pc].kind # conn[o.src].kind


\* Every call's handshake comes to its end, with none of its operations in
\* flight.
HandshakeEnds ==
  \A h \in 1..MaxCalls :
    (Len(calls) >= h) ~>
      (Len(calls) >= h /\ calls[h].stage = Done /\ InFlight(h) = {})

\* A call whose six operations all resolved, not hung up, has the four
\* descriptions set.
CompletedHasDescriptions ==
  \A h \in 1..Len(calls) :
    (Completed(h) /\ NotHungUp(h)) =>
      /\ conn[calls[h].local].localDescription # NoDesc
      /\ conn[calls[h].local].remoteDescription # NoDesc
      /\ conn[calls[h].remote].localDescription # NoDesc
      /\ conn[calls[h].remote].remoteDescription # NoDesc

\* While an operation of a call is in flight and no hangupAction has run,
\* the buttons and module variables are those callAction left.
PendingStaysNegotiating ==
  \A h \in 1..Len(calls) :
    (InFlight(h) # {} /\ NotHungUp(h)) =>
      /\ callDisabled
      /\ ~hangupDisabled
      /\ localPeerConnection = calls[h].local
      /\ remotePeerConnection = calls[h].remote

\* A step that leaves an operation of a call in flight starts no step of
\* that call.
PendingBlocksLaterSteps ==
  \A h \in 1..Len(calls) :
    \A o \in InFlight(h) :
      o \in ops' => /\ calls'[h].stage = calls[h].stage
                    /\ InFlight(h)' = InFlight(h)

\* C20: with a transport that settles every handshake promise, every
\* call's handshake reaches a state with none of its operations in flight,
\* and if all of them resolved, with no hangup, the four descriptions are
\* set; as long as an operation has not settled, no later step of its call
\* is started and, without a hangup, the session stays as callAction left it.
C20_HandshakeProgress ==
  /\ HandshakeEnds
  /\ [](CompletedHasDescriptions /\ PendingStaysNegotiating)
  /\ [][PendingBlocksLaterSteps]_vars

\* C20 witness: a handshake ran to its end with every operation resolved
\* and the four descriptions are set.
C20_Witness ==
  /\ Len(calls) = 1
  /\ rejects = 0
  /\ HandshakeOps = {}
  /\ Completed(1)
  /\ NotHungUp(1)
  /\ conn[calls[1].local].remoteDescription.type = "answer"
  /\ conn[calls[1].remote].localDescription.type = "answer"

====
